---- MODULE Spec2Model ----
(***************************************************************************)
(* Theatre seat reservation: the two variants of the repository.           *)
(*                                                                         *)
(*  - service variant (src/src-tauri/src/main.rs): the commands            *)
(*    get_booked_seats and make_booking, run by concurrent callers over    *)
(*    two mutex-guarded collections;                                       *)
(*  - desktop variant (src/theatre_app/src/main.rs): TheatreApp::update,   *)
(*    a single-threaded message handler.                                   *)
(*                                                                         *)
(* Strings that the code inspects (trim, is_empty, ==) are sequences of    *)
(* characters; Option<T> is <<>> (None) or <<x>> (Some(x)).                *)
(***************************************************************************)
EXTENDS Integers, Sequences, FiniteSets, TLC

VARIABLES
    \* ---- service variant: AppState and the callers' positions
    booked_seats,       \* Mutex<HashMap<u32, Vec<String>>>: the map inside
    bookings,           \* Mutex<Vec<Booking>>: the vector inside
    booked_seats_lock,  \* holder of the booked_seats mutex, <<>> when free
    bookings_lock,      \* holder of the bookings mutex, <<>> when free
    pc,                 \* each caller's position in its command
    args,               \* each caller's arguments, <<>> when it runs no command
    seat_idx,           \* each caller's position in `for seat in &seats`
    new_booking,        \* each caller's local `new_booking`, <<>> before line 86
    ret,                \* the latest return: its caller, command, arguments and value
    snap,               \* history: the two collections as the caller locked them
    ok_calls,           \* history: the arguments of the calls that returned Ok
    calls,              \* history: number of commands invoked so far
    \* ---- desktop variant: the fields of TheatreApp
    current_view,
    shows,              \* Vec<Show>, indexed from 0
    app_bookings,       \* TheatreApp::bookings, the ledger
    seats,              \* Vec<Vec<Vec<Seat>>>: seats[show][row][col], from 0
    selected_show,      \* Option<usize>
    selected_seat,      \* Option<(usize, usize)>
    customer_name,
    booking_id_input,
    error_message,      \* Option<String>
    success_message,    \* Option<String>
    uuids_drawn,        \* history: number of Uuid::new_v4() results since Init
    round_trip,         \* history: the state before the booking just confirmed
    panicked            \* the process has ended in a panic inside update

svcVars == <<booked_seats, bookings, booked_seats_lock, bookings_lock, pc, args,
             seat_idx, new_booking, ret, snap, ok_calls, calls>>

appVars == <<current_view, shows, app_bookings, seats, selected_show, selected_seat,
             customer_name, booking_id_input, error_message, success_message,
             uuids_drawn, round_trip, panicked>>

vars == <<svcVars, appVars>>

----------------------------------------------------------------------------
(* Bounds of the model *)

NumThreads == 2
MaxCalls == 2
MaxUuids == 2

Threads == 1 .. NumThreads

----------------------------------------------------------------------------
(* Helpers *)

Range(s) == {s[k] : k \in DOMAIN s}

\* Vec::contains
contains_looks_at_first_only(v, x) == v # <<>> /\ v[1] = x

contains(v, x) == \E k \in DOMAIN v : v[k] = x

----------------------------------------------------------------------------
(* Desktop variant: src/theatre_app/src/main.rs *)

NumShows == 5
NumRows == 4
NumCols == 5
InitialAvailableSeats == 20

\* char::from_u32('A' as u32 + row as u32).unwrap()
row_letter(row) == <<"A", "B", "C", "D">>[row + 1]

\* str::trim: leading and trailing whitespace removed
RECURSIVE trim_start(_)
trim_start(s) == IF s # <<>> /\ Head(s) = " " THEN trim_start(Tail(s)) ELSE s

RECURSIVE trim_end(_)
trim_end(s) ==
    IF s # <<>> /\ s[Len(s)] = " " THEN trim_end(SubSeq(s, 1, Len(s) - 1)) ELSE s

trim_keeps_whitespace(s) == s

trim(s) == trim_end(trim_start(s))

\* Uuid::new_v4().to_string(): a token no earlier draw produced
uuid_string_repeats(k) == <<"1">>

uuid_string(k) == <<ToString(k)>>

\* format!("{}{}", seat.row, seat.col)
seat_label(seat) == <<seat.row, ToString(seat.col)>>

\* TheatreApp::new
initial_shows ==
    [id \in 0 .. NumShows - 1 |->
        [id |-> id,
         name |-> <<"Dune: Part Two", "Oppenheimer", "Barbie",
                    "Deadpool & Wolverine", "Inside Out 2">>[id + 1],
         date |-> <<"15-03-2024", "20-03-2024", "22-03-2024",
                    "25-03-2024", "28-03-2024">>[id + 1],
         time |-> <<"18:00", "20:30", "19:00", "21:00", "17:30">>[id + 1],
         hall |-> <<"Hall 1", "Hall 2", "Hall 3", "Hall 4", "Hall 5">>[id + 1],
         price |-> <<1500, 2250, 2000, 1500, 1500>>[id + 1],
         available_seats |-> InitialAvailableSeats]]

initial_seats ==
    [s \in 0 .. NumShows - 1 |->
        [row \in 0 .. NumRows - 1 |->
            [col \in 0 .. NumCols - 1 |->
                [row |-> row_letter(row), col |-> col + 1,
                 is_booked |-> FALSE, booking_id |-> <<>>]]]]

InitDesktopState ==
    /\ current_view = "Home"
    /\ shows = initial_shows
    /\ app_bookings = <<>>
    /\ seats = initial_seats
    /\ selected_show = <<>>
    /\ selected_seat = <<>>
    /\ customer_name = <<>>
    /\ booking_id_input = <<>>
    /\ error_message = <<>>
    /\ success_message = <<>>
    /\ uuids_drawn = 0
    /\ round_trip = <<>>
    /\ panicked = FALSE

\* the messages the views hand to update; the empty name and the empty id are
\* what clear() leaves, so no input needs to bring them
ViewInputs == {"Home", "CancelBooking"}
ShowIdInputs == {0, 1}
SeatInputs == {<<0, 0>>, <<3, 4>>}
CustomerNameInputs == {<<" ">>, <<" ", "a">>}
BookingIdInputs ==
    {uuid_string(k) : k \in 1 .. MaxUuids} \cup {<<" ">> \o uuid_string(1) \o <<" ">>}

----------------------------------------------------------------------------
(* Service variant: src/src-tauri/src/main.rs *)

\* the catalog built in main(); the fields no command reads are left out
movies ==
    << [id |-> 1, title |-> "Dune: Part Two"],
       [id |-> 2, title |-> "Oppenheimer"],
       [id |-> 3, title |-> "Barbie"] >>

MovieIds == {movies[k].id : k \in DOMAIN movies}

\* inputs of the commands
MovieIdInputs == {1, 999}
SeatListInputs == {<<>>, <<"A2">>, <<"A1", "A2">>, <<"A1", "A1">>}
NameInputs == {<<" ">>, <<"a">>}

\* state.movies.iter().find(|m| m.id == movie_id).map(|m| m.title.clone()).unwrap_or_default()
movie_title_of(movie_id) ==
    IF \E k \in DOMAIN movies : movies[k].id = movie_id
    THEN LET first == CHOOSE k \in DOMAIN movies :
                          /\ movies[k].id = movie_id
                          /\ \A j \in DOMAIN movies : movies[j].id = movie_id => k <= j
         IN movies[first].title
    ELSE ""

\* HashMap::entry(movie_id).or_insert(Vec::new())
or_insert(map, movie_id) ==
    IF movie_id \in DOMAIN map THEN map
    ELSE [k \in DOMAIN map \cup {movie_id} |-> IF k = movie_id THEN <<>> ELSE map[k]]

\* booked.get(&movie_id).cloned().unwrap_or_default()
get_or_default(map, movie_id) ==
    IF movie_id \in DOMAIN map THEN map[movie_id] ELSE <<>>

\* Mutex::lock blocks while another caller holds the guard
lock_free_never_blocks(lock) == TRUE

lock_free(lock) == lock = <<>>

\* (all_bookings.len() + 1001) as u32; the cast truncates only a ledger of
\* more than 2^32 - 1002 bookings, which no bounded run holds
next_booking_id_ignores_len(ledger) == 1001

next_booking_id(ledger) == Len(ledger) + 1001

\* format!("Seat {} is no longer available.", seat)
seat_unavailable(seat) == <<"Seat ", seat, " is no longer available.">>

Ok(v) == [ok |-> TRUE, value |-> v]
Err(e) == [ok |-> FALSE, value |-> e]

\* what a command hands back to the frontend
returned(t, command, a, result) ==
    <<[caller |-> t, command |-> command, args |-> a, result |-> result]>>

InitServiceState ==
    /\ booked_seats = [m \in {} |-> <<>>]
    /\ bookings = <<>>
    /\ booked_seats_lock = <<>>
    /\ bookings_lock = <<>>
    /\ pc = [t \in Threads |-> "idle"]
    /\ args = [t \in Threads |-> <<>>]
    /\ seat_idx = [t \in Threads |-> 0]
    /\ new_booking = [t \in Threads |-> <<>>]
    /\ ret = <<>>
    /\ snap = [t \in Threads |-> <<>>]
    /\ ok_calls = <<>>
    /\ calls = 0

\* the frontend invokes make_booking(movie_id, name, email, seats, total)
invoke_make_booking(t) ==
    /\ pc[t] = "idle"
    /\ calls < MaxCalls
    /\ \E m \in MovieIdInputs, n \in NameInputs, s \in SeatListInputs :
           args' = [args EXCEPT ![t] = <<[movie_id |-> m, name |-> n, seats |-> s]>>]
    /\ pc' = [pc EXCEPT ![t] = "mb_lock_seats"]
    /\ calls' = calls + 1
    /\ UNCHANGED <<booked_seats, bookings, booked_seats_lock, bookings_lock,
                   seat_idx, new_booking, ret, snap, ok_calls>>

\* line 67: let mut booked_map = state.booked_seats.lock().unwrap();
mb_lock_seats(t) ==
    /\ pc[t] = "mb_lock_seats"
    /\ lock_free(booked_seats_lock)
    /\ booked_seats_lock' = <<t>>
    /\ pc' = [pc EXCEPT ![t] = "mb_lock_bookings"]
    /\ UNCHANGED <<booked_seats, bookings, bookings_lock, args, seat_idx,
                   new_booking, ret, snap, ok_calls, calls>>

\* line 68: let mut all_bookings = state.bookings.lock().unwrap();
mb_lock_bookings(t) ==
    /\ pc[t] = "mb_lock_bookings"
    /\ lock_free(bookings_lock)
    /\ bookings_lock' = <<t>>
    /\ snap' = [snap EXCEPT ![t] = <<[booked_seats |-> booked_seats,
                                      bookings |-> bookings]>>]
    /\ pc' = [pc EXCEPT ![t] = "mb_entry"]
    /\ UNCHANGED <<booked_seats, bookings, booked_seats_lock, args, seat_idx,
                   new_booking, ret, ok_calls, calls>>

\* line 71: let movie_booked = booked_map.entry(movie_id).or_insert(Vec::new());
mb_entry(t) ==
    /\ pc[t] = "mb_entry"
    /\ booked_seats' = or_insert(booked_seats, args[t][1].movie_id)
    /\ seat_idx' = [seat_idx EXCEPT ![t] = 1]
    /\ pc' = [pc EXCEPT ![t] = "mb_check"]
    /\ UNCHANGED <<bookings, booked_seats_lock, bookings_lock, args,
                   new_booking, ret, snap, ok_calls, calls>>

\* the guards of both mutexes are dropped when make_booking returns
release_keeps_bookings_lock(t) ==
    /\ booked_seats_lock' = <<>>
    /\ UNCHANGED bookings_lock

release_both(t) ==
    /\ booked_seats_lock' = <<>>
    /\ bookings_lock' = <<>>

\* lines 72-76: one iteration of `for seat in &seats`, or the loop's end
mb_check(t) ==
    /\ pc[t] = "mb_check"
    /\ LET a == args[t][1]
           movie_booked == booked_seats[a.movie_id]
       IN IF seat_idx[t] > Len(a.seats)
          THEN /\ pc' = [pc EXCEPT ![t] = "mb_extend"]
               /\ UNCHANGED <<booked_seats_lock, bookings_lock, args, seat_idx, ret, snap>>
          ELSE IF contains(movie_booked, a.seats[seat_idx[t]])
          THEN \* return Err(...)
               /\ ret' = returned(t, "make_booking", a,
                                   Err(seat_unavailable(a.seats[seat_idx[t]])))
               /\ release_both(t)
               /\ args' = [args EXCEPT ![t] = <<>>]
               /\ seat_idx' = [seat_idx EXCEPT ![t] = 0]
               /\ snap' = [snap EXCEPT ![t] = <<>>]
               /\ pc' = [pc EXCEPT ![t] = "idle"]
          ELSE /\ seat_idx' = [seat_idx EXCEPT ![t] = seat_idx[t] + 1]
               /\ UNCHANGED <<booked_seats_lock, bookings_lock, args, ret, pc, snap>>
    /\ UNCHANGED <<booked_seats, bookings, new_booking, ok_calls, calls>>

\* line 79: movie_booked.extend(seats.clone());
mb_extend(t) ==
    /\ pc[t] = "mb_extend"
    /\ booked_seats' = [booked_seats EXCEPT
                           ![args[t][1].movie_id] = @ \o args[t][1].seats]
    /\ pc' = [pc EXCEPT ![t] = "mb_new_booking"]
    /\ UNCHANGED <<bookings, booked_seats_lock, bookings_lock, args, seat_idx,
                   new_booking, ret, snap, ok_calls, calls>>

\* lines 81-94: the title lookup and the Booking literal
\* (email, total_amount and date are carried through and never read)
mb_new_booking(t) ==
    /\ pc[t] = "mb_new_booking"
    /\ new_booking' = [new_booking EXCEPT ![t] =
           <<[id |-> next_booking_id(bookings),
              customer_name |-> args[t][1].name,
              movie_title |-> movie_title_of(args[t][1].movie_id),
              seats |-> args[t][1].seats]>>]
    /\ pc' = [pc EXCEPT ![t] = "mb_push"]
    /\ UNCHANGED <<booked_seats, bookings, booked_seats_lock, bookings_lock,
                   args, seat_idx, ret, snap, ok_calls, calls>>

\* line 96: all_bookings.push(new_booking.clone());
mb_push(t) ==
    /\ pc[t] = "mb_push"
    /\ bookings' = Append(bookings, new_booking[t][1])
    /\ pc' = [pc EXCEPT ![t] = "mb_return"]
    /\ UNCHANGED <<booked_seats, booked_seats_lock, bookings_lock, args,
                   seat_idx, new_booking, ret, snap, ok_calls, calls>>

\* line 97: Ok(new_booking)
mb_return(t) ==
    /\ pc[t] = "mb_return"
    /\ ret' = returned(t, "make_booking", args[t][1], Ok(new_booking[t][1]))
    /\ ok_calls' = Append(ok_calls, [caller |-> t, call |-> args[t][1]])
    /\ release_both(t)
    /\ args' = [args EXCEPT ![t] = <<>>]
    /\ seat_idx' = [seat_idx EXCEPT ![t] = 0]
    /\ new_booking' = [new_booking EXCEPT ![t] = <<>>]
    /\ snap' = [snap EXCEPT ![t] = <<>>]
    /\ pc' = [pc EXCEPT ![t] = "idle"]
    /\ UNCHANGED <<booked_seats, bookings, calls>>

\* the frontend invokes get_booked_seats(movie_id)
invoke_get_booked_seats(t) ==
    /\ pc[t] = "idle"
    /\ calls < MaxCalls
    /\ \E m \in MovieIdInputs :
           args' = [args EXCEPT ![t] = <<[movie_id |-> m]>>]
    /\ pc' = [pc EXCEPT ![t] = "gb_lock"]
    /\ calls' = calls + 1
    /\ UNCHANGED <<booked_seats, bookings, booked_seats_lock, bookings_lock,
                   seat_idx, new_booking, ret, snap, ok_calls>>

\* line 54: let booked = state.booked_seats.lock().unwrap();
gb_lock(t) ==
    /\ pc[t] = "gb_lock"
    /\ lock_free(booked_seats_lock)
    /\ booked_seats_lock' = <<t>>
    /\ pc' = [pc EXCEPT ![t] = "gb_read"]
    /\ UNCHANGED <<booked_seats, bookings, bookings_lock, args, seat_idx,
                   new_booking, ret, snap, ok_calls, calls>>

\* line 55: booked.get(&movie_id).cloned().unwrap_or_default(), guard dropped
gb_read_inserts_entry(t) ==
    /\ pc[t] = "gb_read"
    /\ booked_seats' = or_insert(booked_seats, args[t][1].movie_id)
    /\ ret' = returned(t, "get_booked_seats", args[t][1],
                    Ok(booked_seats'[args[t][1].movie_id]))
    /\ booked_seats_lock' = <<>>
    /\ args' = [args EXCEPT ![t] = <<>>]
    /\ pc' = [pc EXCEPT ![t] = "idle"]
    /\ UNCHANGED <<bookings, bookings_lock, seat_idx,
                   new_booking, snap, ok_calls, calls>>

gb_read(t) ==
    /\ pc[t] = "gb_read"
    /\ ret' = returned(t, "get_booked_seats", args[t][1],
                    Ok(get_or_default(booked_seats, args[t][1].movie_id)))
    /\ booked_seats_lock' = <<>>
    /\ args' = [args EXCEPT ![t] = <<>>]
    /\ pc' = [pc EXCEPT ![t] = "idle"]
    /\ UNCHANGED <<booked_seats, bookings, bookings_lock, seat_idx,
                   new_booking, snap, ok_calls, calls>>

NextService ==
    \/ \E t \in Threads : invoke_make_booking(t) /\ UNCHANGED appVars
    \/ \E t \in Threads : mb_lock_seats(t) /\ UNCHANGED appVars
    \/ \E t \in Threads : mb_lock_bookings(t) /\ UNCHANGED appVars
    \/ \E t \in Threads : mb_entry(t) /\ UNCHANGED appVars
    \/ \E t \in Threads : mb_check(t) /\ UNCHANGED appVars
    \/ \E t \in Threads : mb_extend(t) /\ UNCHANGED appVars
    \/ \E t \in Threads : mb_new_booking(t) /\ UNCHANGED appVars
    \/ \E t \in Threads : mb_push(t) /\ UNCHANGED appVars
    \/ \E t \in Threads : mb_return(t) /\ UNCHANGED appVars
    \/ \E t \in Threads : invoke_get_booked_seats(t) /\ UNCHANGED appVars
    \/ \E t \in Threads : gb_lock(t) /\ UNCHANGED appVars
    \/ \E t \in Threads : gb_read(t) /\ UNCHANGED appVars

----------------------------------------------------------------------------
(* Desktop variant: TheatreApp::update, lines 122-202 *)

Some(x) == <<x>>

\* lines 123-124: every message first clears both banners
banners(error, success) ==
    /\ error_message' = error
    /\ success_message' = success

\* line 147: self.customer_name.trim().is_empty()
is_blank_without_trim(name) == name = <<>>

is_blank(name) == trim(name) = <<>>

\* line 179: self.bookings.iter().position(|b| b.id == booking_id)
position(ledger, booking_id) ==
    IF \E k \in DOMAIN ledger : ledger[k].id = booking_id
    THEN Some(CHOOSE k \in DOMAIN ledger :
                  /\ ledger[k].id = booking_id
                  /\ \A j \in DOMAIN ledger : ledger[j].id = booking_id => k <= j)
    ELSE <<>>

\* line 189: Vec::remove(idx)
remove_keeps_booking(ledger, idx) == ledger

remove(ledger, idx) ==
    SubSeq(ledger, 1, idx - 1) \o SubSeq(ledger, idx + 1, Len(ledger))

\* lines 181-188: every seat of the show that carries the id is freed
free_seats_of(show_seats, booking_id) ==
    [row \in DOMAIN show_seats |->
        [col \in DOMAIN show_seats[row] |->
            IF show_seats[row][col].booking_id = Some(booking_id)
            THEN [show_seats[row][col] EXCEPT !.is_booked = FALSE, !.booking_id = <<>>]
            ELSE show_seats[row][col]]]

\* lines 127-132
\* line 168: self.shows[show_id].available_seats -= 1;
seat_taken_from_price(show) == [show EXCEPT !.price = @ - 1]

seat_taken(show) == [show EXCEPT !.available_seats = @ - 1]

\* line 190: self.shows[show_id].available_seats += 1;
seat_returned(show) == [show EXCEPT !.available_seats = @ + 1]

ChangeView(view) ==
    /\ banners(<<>>, <<>>)
    /\ current_view' = view
    /\ customer_name' = <<>>
    /\ booking_id_input' = <<>>
    /\ selected_seat' = <<>>
    /\ round_trip' = <<>>
    /\ UNCHANGED <<shows, app_bookings, seats, selected_show, uuids_drawn>>

\* lines 133-136
SelectShow(id) ==
    /\ banners(<<>>, <<>>)
    /\ selected_show' = Some(id)
    /\ current_view' = "Booking"
    /\ round_trip' = <<>>
    /\ UNCHANGED <<shows, app_bookings, seats, selected_seat, customer_name,
                   booking_id_input, uuids_drawn>>

\* lines 137-143
SelectSeat(row, col) ==
    /\ banners(<<>>, <<>>)
    /\ IF selected_show # <<>> /\ ~seats[selected_show[1]][row][col].is_booked
       THEN selected_seat' = Some(<<row, col>>)
       ELSE UNCHANGED selected_seat
    /\ round_trip' = <<>>
    /\ UNCHANGED <<current_view, shows, app_bookings, seats, selected_show,
                   customer_name, booking_id_input, uuids_drawn>>

\* line 144
CustomerNameChanged(name) ==
    /\ banners(<<>>, <<>>)
    /\ customer_name' = name
    /\ round_trip' = <<>>
    /\ UNCHANGED <<current_view, shows, app_bookings, seats, selected_show,
                   selected_seat, booking_id_input, uuids_drawn>>

\* lines 145-175; booking_time is the clock's and save_ticket writes a file:
\* neither is read back by update
ConfirmBooking ==
    IF selected_show # <<>> /\ selected_seat # <<>>
    THEN LET show_id == selected_show[1]
             row == selected_seat[1][1]
             col == selected_seat[1][2]
         IN IF is_blank(customer_name)
            THEN /\ banners(Some(<<"Please enter customer name">>), <<>>)
                 /\ round_trip' = <<>>
                 /\ UNCHANGED <<current_view, shows, app_bookings, seats,
                                selected_show, selected_seat, customer_name,
                                booking_id_input, uuids_drawn, panicked>>
            ELSE /\ uuids_drawn < MaxUuids
                 /\ LET booking_id == uuid_string(uuids_drawn + 1)
                        seat == [seats[show_id][row][col] EXCEPT
                                    !.is_booked = TRUE,
                                    !.booking_id = Some(booking_id)]
                        booking == [id |-> booking_id,
                                    show_id |-> show_id,
                                    customer_name |-> customer_name,
                                    seat |-> seat_label(seat),
                                    price |-> shows[show_id].price]
                    IN /\ uuids_drawn' = uuids_drawn + 1
                       /\ seats' = [seats EXCEPT ![show_id][row][col] = seat]
                       /\ app_bookings' = Append(app_bookings, booking)
                       /\ \/ \* line 168 built with overflow checks (the dev
                             \* profile): `-= 1` on a usize of 0 panics, the
                             \* fields written so far are as lines 123-167 left them
                             /\ shows[show_id].available_seats = 0
                             /\ panicked' = TRUE
                             /\ banners(<<>>, <<>>)
                             /\ round_trip' = <<>>
                             /\ UNCHANGED <<shows, customer_name, selected_seat>>
                          \/ \* lines 168-174; built without overflow checks (the
                             \* release profile) 0 - 1 wraps to usize::MAX, which
                             \* is kept as -1, its residue modulo 2^64
                             /\ shows' = [shows EXCEPT ![show_id] = seat_taken(@)]
                             /\ banners(<<>>, Some(<<"Booking confirmed! ID: ">> \o booking_id))
                             /\ customer_name' = <<>>
                             /\ selected_seat' = <<>>
                             /\ round_trip' = Some([id |-> booking_id, seats |-> seats,
                                                    bookings |-> app_bookings, shows |-> shows])
                             /\ UNCHANGED panicked
                       /\ UNCHANGED <<current_view, selected_show, booking_id_input>>
    ELSE /\ banners(<<>>, <<>>)
         /\ round_trip' = <<>>
         /\ UNCHANGED <<current_view, shows, app_bookings, seats, selected_show,
                        selected_seat, customer_name, booking_id_input, uuids_drawn,
                        panicked>>

\* line 176
BookingIdChanged(id) ==
    /\ banners(<<>>, <<>>)
    /\ booking_id_input' = id
    /\ UNCHANGED <<current_view, shows, app_bookings, seats, selected_show,
                   selected_seat, customer_name, uuids_drawn, round_trip>>

\* lines 177-196
CancelBookingConfirm ==
    /\ LET booking_id == trim(booking_id_input)
           found == position(app_bookings, booking_id)
       IN IF found # <<>>
          THEN LET idx == found[1]
                   show_id == app_bookings[idx].show_id
               IN /\ seats' = [seats EXCEPT
                                  ![show_id] = free_seats_of(@, booking_id)]
                  /\ app_bookings' = remove(app_bookings, idx)
                  /\ shows' = [shows EXCEPT ![show_id] = seat_returned(@)]
                  /\ banners(<<>>, Some(<<"Booking cancelled successfully">>))
                  /\ booking_id_input' = <<>>
          ELSE /\ banners(Some(<<"Booking ID not found">>), <<>>)
               /\ UNCHANGED <<seats, app_bookings, shows, booking_id_input>>
    /\ round_trip' = <<>>
    /\ UNCHANGED <<current_view, selected_show, selected_seat, customer_name,
                   uuids_drawn>>

\* lines 197-200; export_records writes a file and changes no field
ExportRecords_drains_ledger ==
    /\ banners(<<>>, Some(<<"Records exported to bookings_export.json">>))
    /\ round_trip' = <<>>
    /\ app_bookings' = <<>>
    /\ UNCHANGED <<current_view, shows, seats, selected_show,
                   selected_seat, customer_name, booking_id_input, uuids_drawn>>

ExportRecords ==
    /\ banners(<<>>, Some(<<"Records exported to bookings_export.json">>))
    /\ round_trip' = <<>>
    /\ UNCHANGED <<current_view, shows, app_bookings, seats, selected_show,
                   selected_seat, customer_name, booking_id_input, uuids_drawn>>

NextDesktop ==
    \/ /\ ~panicked
       /\ \E view \in ViewInputs : ChangeView(view)
       /\ UNCHANGED <<svcVars, panicked>>
    \/ /\ ~panicked
       /\ \E id \in ShowIdInputs : SelectShow(id)
       /\ UNCHANGED <<svcVars, panicked>>
    \/ /\ ~panicked
       /\ \E rc \in SeatInputs : SelectSeat(rc[1], rc[2])
       /\ UNCHANGED <<svcVars, panicked>>
    \/ /\ ~panicked
       /\ \E name \in CustomerNameInputs : CustomerNameChanged(name)
       /\ UNCHANGED <<svcVars, panicked>>
    \/ /\ ~panicked
       /\ ConfirmBooking
       /\ UNCHANGED svcVars
    \/ /\ ~panicked
       /\ \E id \in BookingIdInputs : BookingIdChanged(id)
       /\ UNCHANGED <<svcVars, panicked>>
    \/ /\ ~panicked
       /\ CancelBookingConfirm
       /\ UNCHANGED <<svcVars, panicked>>
    \/ /\ ~panicked
       /\ ExportRecords
       /\ UNCHANGED <<svcVars, panicked>>

----------------------------------------------------------------------------
(* Specifications *)

\* the two variants are separate programs: while one runs, the state of the
\* other does not exist
ServiceAbsent ==
    /\ booked_seats = <<>> /\ bookings = <<>>
    /\ booked_seats_lock = <<>> /\ bookings_lock = <<>>
    /\ pc = <<>> /\ args = <<>> /\ seat_idx = <<>> /\ new_booking = <<>>
    /\ ret = <<>> /\ snap = <<>> /\ ok_calls = <<>> /\ calls = 0

DesktopAbsent ==
    /\ current_view = <<>> /\ shows = <<>> /\ app_bookings = <<>> /\ seats = <<>>
    /\ selected_show = <<>> /\ selected_seat = <<>> /\ customer_name = <<>>
    /\ booking_id_input = <<>> /\ error_message = <<>> /\ success_message = <<>>
    /\ uuids_drawn = 0 /\ round_trip = <<>> /\ panicked = FALSE

InitService == InitServiceState /\ DesktopAbsent

InitDesktop == InitDesktopState /\ ServiceAbsent

SpecService == InitService /\ [][NextService]_vars

SpecDesktop == InitDesktop /\ [][NextDesktop]_vars

\* The desktop application with its first show sold out: the state new()
\* reaches by SelectShow(0), then SelectSeat, CustomerNameChanged("a") and
\* ConfirmBooking for each of the show's seats in row-major order, then
\* ChangeView(Home). The ids of these bookings are UUIDs drawn before the run
\* starts counting, so they differ from every id drawn in it.
sold_out_id(row, col) == uuid_string(MaxUuids + row * NumCols + col + 1)

sold_out_seats ==
    [initial_seats EXCEPT ![0] =
        [row \in 0 .. NumRows - 1 |->
            [col \in 0 .. NumCols - 1 |->
                [@[row][col] EXCEPT !.is_booked = TRUE,
                                    !.booking_id = Some(sold_out_id(row, col))]]]]

sold_out_bookings ==
    [k \in 1 .. NumRows * NumCols |->
        LET row == (k - 1) \div NumCols
            col == (k - 1) % NumCols
        IN [id |-> sold_out_id(row, col),
            show_id |-> 0,
            customer_name |-> <<"a">>,
            seat |-> seat_label(initial_seats[0][row][col]),
            price |-> initial_shows[0].price]]

sold_out_shows ==
    [initial_shows EXCEPT ![0].available_seats = @ - NumRows * NumCols]

InitSoldOutState ==
    /\ current_view = "Home"
    /\ shows = sold_out_shows
    /\ app_bookings = sold_out_bookings
    /\ seats = sold_out_seats
    /\ selected_show = Some(0)
    /\ selected_seat = <<>>
    /\ customer_name = <<>>
    /\ booking_id_input = <<>>
    /\ error_message = <<>>
    /\ success_message = <<>>
    /\ uuids_drawn = 0
    /\ round_trip = <<>>
    /\ panicked = FALSE

InitSoldOut == InitSoldOutState /\ ServiceAbsent

SpecSoldOut == InitSoldOut /\ [][NextDesktop]_vars

\* a step of caller t inside a command: every step but the frontend's invoke
CommandStep(t) ==
    \/ mb_lock_seats(t) \/ mb_lock_bookings(t) \/ mb_entry(t) \/ mb_check(t)
    \/ mb_extend(t) \/ mb_new_booking(t) \/ mb_push(t) \/ mb_return(t)
    \/ gb_lock(t) \/ gb_read(t)

\* the runtime's worker threads are scheduled fairly: a caller whose next step
\* stays possible takes it (a lock step stays possible once the holder returned)
FairSpecService ==
    /\ InitService
    /\ [][NextService]_vars
    /\ \A t \in Threads : WF_vars(CommandStep(t) /\ UNCHANGED appVars)

----------------------------------------------------------------------------
(* Claims, service variant *)

\* the seat lists of the movie, as the caller found them when it took the locks
BookedAtLock(t) == get_or_default(snap[t][1].booked_seats, args[t][1].movie_id)

\* the caller is in make_booking's critical section with a requested label
\* that was already booked for the movie when it entered
Conflicted(t) ==
    /\ snap[t] # <<>>
    /\ \E k \in DOMAIN args[t][1].seats : args[t][1].seats[k] \in Range(BookedAtLock(t))

ErrReturn(t) == pc[t] = "mb_check" /\ pc'[t] = "idle"

\* C1: of the make_booking calls on one movie whose seat lists share a label, at
\* most one returns Ok; a call that returns Err names the contested seat and
\* leaves booked_seats and bookings as it found them when it took the locks.
C1_NoDoubleBooking ==
    /\ [](\A i, j \in DOMAIN ok_calls :
            (i # j /\ ok_calls[i].call.movie_id = ok_calls[j].call.movie_id)
                => Range(ok_calls[i].call.seats) \cap Range(ok_calls[j].call.seats) = {})
    /\ [][\A t \in Threads :
            ErrReturn(t) =>
                /\ ~ret'[1].result.ok
                /\ \E k \in DOMAIN args[t][1].seats :
                       /\ ret'[1].result.value = seat_unavailable(args[t][1].seats[k])
                       /\ args[t][1].seats[k] \in Range(BookedAtLock(t))
                /\ booked_seats' = snap[t][1].booked_seats
                /\ bookings' = snap[t][1].bookings]_vars

\* two callers contested a seat of one movie: one returned Ok, the other Err
C1_Witness ==
    /\ ret # <<>>
    /\ ret[1].command = "make_booking"
    /\ ~ret[1].result.ok
    /\ \E i \in DOMAIN ok_calls :
           /\ ok_calls[i].caller # ret[1].caller
           /\ ok_calls[i].call.movie_id = ret[1].args.movie_id
           /\ Range(ok_calls[i].call.seats) \cap Range(ret[1].args.seats) # {}

\* C2: a make_booking whose seat list holds a label already booked for the movie
\* never reaches the commit: it returns Err, and from taking the locks to the
\* return booked_seats and bookings stay as they were, wherever the label stands
\* in the list.
C2_AtomicMultiSeatCommit ==
    [][\A t \in Threads :
          Conflicted(t) =>
              /\ pc'[t] \in {"mb_entry", "mb_check", "idle"}
              /\ booked_seats' = snap[t][1].booked_seats
              /\ bookings' = snap[t][1].bookings
              /\ pc'[t] = "idle" =>
                     /\ ret'[1].caller = t
                     /\ ~ret'[1].result.ok]_vars

\* the request [A1, A2] failed on A2, its second label, and A1 is still free
C2_Witness ==
    /\ ret # <<>>
    /\ ret[1].command = "make_booking"
    /\ ret[1].args.seats = <<"A1", "A2">>
    /\ ret[1].result = Err(seat_unavailable("A2"))
    /\ "A1" \notin Range(get_or_default(booked_seats, ret[1].args.movie_id))
    /\ "A2" \in Range(get_or_default(booked_seats, ret[1].args.movie_id))

\* C6: the bookings of the ledger have pairwise distinct ids.
C6_BookingIdsDistinct ==
    \A i, j \in DOMAIN bookings : i # j => bookings[i].id # bookings[j].id

\* two callers each added a booking
C6_Witness ==
    /\ Len(bookings) >= 2
    /\ \E i, j \in DOMAIN ok_calls : ok_calls[i].caller # ok_calls[j].caller

\* C8: a make_booking for a movie_id outside the catalog returns an error and adds
\* nothing, so every booking of the ledger names a movie of the catalog.
C8_UnknownShowRejected ==
    /\ \A i \in DOMAIN ok_calls : ok_calls[i].call.movie_id \in MovieIds
    /\ \A m \in DOMAIN booked_seats : m \notin MovieIds => booked_seats[m] = <<>>
    /\ \A i \in DOMAIN bookings :
           \E k \in DOMAIN movies : movies[k].title = bookings[i].movie_title

\* empty or whitespace only
Blank(name) == \A k \in DOMAIN name : name[k] = " "

\* C9: a make_booking with an empty seat list or a blank customer name returns an
\* error, appends no booking and marks no seat.
C9_InvalidInputRejected ==
    /\ \A i \in DOMAIN ok_calls :
           /\ ok_calls[i].call.seats # <<>>
           /\ ~Blank(ok_calls[i].call.name)
    /\ \A i \in DOMAIN bookings :
           /\ bookings[i].seats # <<>>
           /\ ~Blank(bookings[i].customer_name)

----------------------------------------------------------------------------
(* Claims, desktop variant *)

ShowIds == DOMAIN seats

\* the labels of the seats of a show that are marked booked
BookedLabels(show_id) ==
    {seat_label(seats[show_id][row][col]) :
        <<row, col>> \in {rc \in (0 .. NumRows - 1) \X (0 .. NumCols - 1) :
                             seats[show_id][rc[1]][rc[2]].is_booked}}

\* the labels the ledger's bookings of a show name
LedgerLabels(show_id) ==
    {app_bookings[k].seat :
        k \in {i \in DOMAIN app_bookings : app_bookings[i].show_id = show_id}}

\* C3: no two bookings of the ledger have the same (show_id, seat).
C3_SeatUniqueness ==
    \A i, j \in DOMAIN app_bookings :
        i # j => ~(/\ app_bookings[i].show_id = app_bookings[j].show_id
                   /\ app_bookings[i].seat = app_bookings[j].seat)

\* C4: for every show the seats marked booked are exactly the seats the
\* ledger's bookings of that show name.
C4_SeatMapLedgerAgreement ==
    \A show_id \in ShowIds : BookedLabels(show_id) = LedgerLabels(show_id)

CancelSucceeds ==
    /\ position(app_bookings, trim(booking_id_input)) # <<>>
    /\ CancelBookingConfirm

\* C5: cancelling the booking just confirmed, by its id, returns the seat map,
\* the ledger and the shows' counters to their values before the booking.
C5_CancellationRoundTrip ==
    [][(/\ round_trip # <<>>
        /\ trim(booking_id_input) = round_trip[1].id
        /\ CancelSucceeds)
          => /\ seats' = round_trip[1].seats
             /\ app_bookings' = round_trip[1].bookings
             /\ shows' = round_trip[1].shows]_vars

\* C7: a CancelBookingConfirm with an id of the ledger removes every booking of
\* that id and reports success, so the same id is not found afterwards; one with
\* an id the ledger does not hold reports "Booking ID not found" and changes
\* neither the seat map, the ledger nor a counter.
C7_CancellingTwice ==
    [][CancelBookingConfirm =>
          LET booking_id == trim(booking_id_input)
          IN IF \E k \in DOMAIN app_bookings : app_bookings[k].id = booking_id
             THEN /\ success_message' = Some(<<"Booking cancelled successfully">>)
                  /\ error_message' = <<>>
                  /\ Len(app_bookings') = Len(app_bookings) - 1
                  /\ \A k \in DOMAIN app_bookings' : app_bookings'[k].id # booking_id
             ELSE /\ error_message' = Some(<<"Booking ID not found">>)
                  /\ success_message' = <<>>
                  /\ UNCHANGED <<seats, app_bookings, shows>>]_vars

\* the id of a booking that was made and cancelled is entered again and not found
C7_Witness ==
    /\ error_message = Some(<<"Booking ID not found">>)
    /\ \E k \in 1 .. uuids_drawn : trim(booking_id_input) = uuid_string(k)
    /\ \A k \in DOMAIN app_bookings : app_bookings[k].id # trim(booking_id_input)

\* C10: ConfirmBooking with a show and a seat selected and a blank customer name
\* sets "Please enter customer name" and leaves the seat map, the ledger, the
\* counters and the seat selection unchanged.
C10_BlankNameRejected ==
    [][(/\ selected_show # <<>>
        /\ selected_seat # <<>>
        /\ Blank(customer_name)
        /\ ConfirmBooking)
          => /\ error_message' = Some(<<"Please enter customer name">>)
             /\ success_message' = <<>>
             /\ UNCHANGED <<seats, app_bookings, shows, selected_seat, selected_show>>]_vars

\* a whitespace-only name was refused with a show and a seat selected
C10_Witness ==
    /\ error_message = Some(<<"Please enter customer name">>)
    /\ selected_show # <<>>
    /\ selected_seat # <<>>
    /\ customer_name = <<" ">>
    /\ app_bookings = <<>>

\* the places of a show's seat grid
GridPlaces == (0 .. NumRows - 1) \X (0 .. NumCols - 1)

\* C11: a CancelBookingConfirm that finds booking b removes b from the
\* ledger and keeps every other booking in its order, frees the seat of b's
\* show that b names, and leaves every other seat of every show as it was.
C11_CancellationIsLocal ==
    [][CancelSucceeds =>
          LET idx == position(app_bookings, trim(booking_id_input))[1]
              b == app_bookings[idx]
          IN /\ Len(app_bookings') = Len(app_bookings) - 1
             /\ \A k \in DOMAIN app_bookings' :
                    app_bookings'[k] = app_bookings[IF k < idx THEN k ELSE k + 1]
             /\ \A show_id \in ShowIds : \A rc \in GridPlaces :
                    LET seat == seats[show_id][rc[1]][rc[2]]
                    IN IF show_id = b.show_id /\ seat_label(seat) = b.seat
                       THEN seats'[show_id][rc[1]][rc[2]] =
                                [seat EXCEPT !.is_booked = FALSE, !.booking_id = <<>>]
                       ELSE seats'[show_id][rc[1]][rc[2]] = seat]_vars

----------------------------------------------------------------------------
(* Claims, service variant: queries and scheduling *)

\* caller t takes a step of get_booked_seats
GbStep(t) == pc[t] \in {"gb_lock", "gb_read"} /\ pc'[t] # pc[t]

GbReturn(t) == pc[t] = "gb_read" /\ pc'[t] = "idle"

\* C12: no step of get_booked_seats changes booked_seats or bookings, so it
\* creates no entry for the queried id; it returns Ok, and for a movie_id with
\* no entry (line 71 creates one at every booking attempt) the empty list.
C12_QueryIsReadOnly ==
    [][\A t \in Threads :
          /\ GbStep(t) => UNCHANGED <<booked_seats, bookings>>
          /\ GbReturn(t) =>
                /\ ret'[1].caller = t
                /\ ret'[1].command = "get_booked_seats"
                /\ ret'[1].result.ok
                /\ args[t][1].movie_id \notin DOMAIN booked_seats =>
                       /\ ret'[1].result.value = <<>>
                       /\ args[t][1].movie_id \notin DOMAIN booked_seats']_vars

\* a query for an id that was never booked returned the empty list while
\* another movie has booked seats
C12_Witness ==
    /\ ret # <<>>
    /\ ret[1].command = "get_booked_seats"
    /\ ret[1].result = Ok(<<>>)
    /\ ret[1].args.movie_id \notin DOMAIN booked_seats
    /\ \E m \in DOMAIN booked_seats : booked_seats[m] # <<>>

\* the seat labels of the make_booking calls on a movie that returned Ok, in
\* the order of their returns
RECURSIVE CommittedLabels(_, _)
CommittedLabels(oks, movie_id) ==
    IF oks = <<>> THEN <<>>
    ELSE (IF Head(oks).call.movie_id = movie_id THEN Head(oks).call.seats ELSE <<>>)
             \o CommittedLabels(Tail(oks), movie_id)

\* C13: the list a get_booked_seats call returns is made of the whole seat
\* lists of the make_booking calls on that movie that committed, each request
\* contributing all of its labels or none, and each of those requests has its
\* booking, with the same seats, in the ledger when the query reads.
C13_ConsistentSnapshot ==
    [][\A t \in Threads :
          GbReturn(t) =>
              /\ ret'[1].result.value = CommittedLabels(ok_calls, args[t][1].movie_id)
              /\ Len(bookings) = Len(ok_calls)
              /\ \A i \in DOMAIN ok_calls :
                     /\ bookings[i].seats = ok_calls[i].call.seats
                     /\ bookings[i].customer_name = ok_calls[i].call.name]_vars

\* a query returned both labels of a two-seat booking another caller made
C13_Witness ==
    /\ ret # <<>>
    /\ ret[1].command = "get_booked_seats"
    /\ ret[1].result = Ok(<<"A1", "A2">>)
    /\ \E i \in DOMAIN ok_calls :
           /\ ok_calls[i].caller # ret[1].caller
           /\ ok_calls[i].call.movie_id = ret[1].args.movie_id
           /\ ok_calls[i].call.seats = <<"A1", "A2">>

\* caller t waits for a mutex another caller holds
Blocked(t) ==
    \/ pc[t] \in {"mb_lock_seats", "gb_lock"} /\ ~lock_free(booked_seats_lock)
    \/ pc[t] = "mb_lock_bookings" /\ ~lock_free(bookings_lock)

\* C14: under fair scheduling every make_booking and get_booked_seats call
\* returns; the bookings mutex is only held by the holder of the booked_seats
\* mutex, a caller that has returned (Ok or Err) holds neither, and in no state
\* are all the callers inside a command waiting for a mutex.
C14_NoIndefiniteBlocking ==
    /\ [](bookings_lock # <<>> => booked_seats_lock = bookings_lock)
    /\ [](\A t \in Threads :
              pc[t] = "idle" => booked_seats_lock # <<t>> /\ bookings_lock # <<t>>)
    /\ []((\E t \in Threads : pc[t] # "idle")
              => \E t \in Threads : pc[t] # "idle" /\ ~Blocked(t))
    /\ \A t \in Threads : (pc[t] # "idle") ~> (pc[t] = "idle")

\* a caller waits at line 67 or 54 while another holds both mutexes
C14_Witness ==
    \E t, u \in Threads :
        /\ t # u
        /\ Blocked(t)
        /\ booked_seats_lock = <<u>>
        /\ bookings_lock = <<u>>

----------------------------------------------------------------------------
(* Claims, desktop variant: catalog, panics and the derived fields *)

\* the fields of a Show that describe the catalog entry
CatalogFields(show) ==
    [id |-> show.id, name |-> show.name, date |-> show.date, time |-> show.time,
     hall |-> show.hall, price |-> show.price]

ConfirmBooks == ConfirmBooking /\ app_bookings' # app_bookings

\* C16: no step of update panics: the show and the seat selected are always
\* indices of the catalog and of the grid, every booking's show_id is an index
\* of the catalog, and no ConfirmBooking decrements an available_seats of 0.
C16_UpdateNeverPanics ==
    /\ [](~panicked)
    /\ [](selected_show # <<>> =>
              selected_show[1] \in DOMAIN shows /\ selected_show[1] \in DOMAIN seats)
    /\ [](selected_seat # <<>> => selected_seat[1] \in GridPlaces)
    /\ [](\A k \in DOMAIN app_bookings : app_bookings[k].show_id \in DOMAIN shows)
    /\ [][ConfirmBooks => shows[selected_show[1]].available_seats > 0]_vars

----------------------------------------------------------------------------
(* Claims, service variant: seat lists *)

NoRepeats(v) == \A i, j \in DOMAIN v : i # j => v[i] # v[j]

\* C17: the seat labels of every booking of the ledger are pairwise distinct,
\* and no movie's booked-seat list holds a label twice.
C17_SeatsUniqueWithinBooking ==
    /\ \A k \in DOMAIN bookings : NoRepeats(bookings[k].seats)
    /\ \A m \in DOMAIN booked_seats : NoRepeats(booked_seats[m])

----------------------------------------------------------------------------
(* Claims, desktop variant: selection, counters and back-references *)

\* C18: in every state, a seat selected under the selected show is not booked.
C18_SelectedSeatIsFree ==
    (selected_show # <<>> /\ selected_seat # <<>>) =>
        ~seats[selected_show[1]][selected_seat[1][1]][selected_seat[1][2]].is_booked

\* the places of a show whose seat is marked booked
BookedPlaces(show_id) ==
    {rc \in GridPlaces : seats[show_id][rc[1]][rc[2]].is_booked}

\* the positions of the ledger's bookings of a show
LedgerOf(show_id) ==
    {k \in DOMAIN app_bookings : app_bookings[k].show_id = show_id}

\* C19: for every show, available_seats is 20 less the number of its seats
\* marked booked, and 20 less the number of the ledger's bookings of the show.
C19_AvailabilityCounter ==
    \A show_id \in ShowIds :
        /\ shows[show_id].available_seats =
               InitialAvailableSeats - Cardinality(BookedPlaces(show_id))
        /\ shows[show_id].available_seats =
               InitialAvailableSeats - Cardinality(LedgerOf(show_id))

\* C20: a seat is marked booked exactly when it carries a booking_id; the id
\* on a seat of show s is the id of exactly one booking of the ledger, which
\* is of show s and names that seat; and a CancelBookingConfirm that removes a
\* booking finds the seat the booking names carrying its id, and frees it.
C20_SeatBackReference ==
    /\ [](\A show_id \in ShowIds : \A rc \in GridPlaces :
              LET seat == seats[show_id][rc[1]][rc[2]]
                  holders == {k \in DOMAIN app_bookings :
                                 seat.booking_id = Some(app_bookings[k].id)}
              IN /\ seat.is_booked <=> seat.booking_id # <<>>
                 /\ seat.booking_id # <<>> =>
                        /\ Cardinality(holders) = 1
                        /\ \A k \in holders :
                               /\ app_bookings[k].show_id = show_id
                               /\ app_bookings[k].seat = seat_label(seat))
    /\ [][CancelSucceeds =>
             LET b == app_bookings[position(app_bookings, trim(booking_id_input))[1]]
             IN \E rc \in GridPlaces :
                    /\ seat_label(seats[b.show_id][rc[1]][rc[2]]) = b.seat
                    /\ seats[b.show_id][rc[1]][rc[2]].booking_id = Some(b.id)
                    /\ ~seats'[b.show_id][rc[1]][rc[2]].is_booked]_vars

----------------------------------------------------------------------------
(* Claims, desktop variant: frame of the other messages *)

\* the available_seats counter of every show
Counters == [s \in DOMAIN shows |-> shows[s].available_seats]

\* the seat map, the ledger and the counters
ReservationState == <<seats, app_bookings, Counters>>

\* a message of update other than ConfirmBooking and CancelBookingConfirm
OtherMessage ==
    \/ \E view \in ViewInputs : ChangeView(view)
    \/ \E id \in ShowIdInputs : SelectShow(id)
    \/ \E rc \in SeatInputs : SelectSeat(rc[1], rc[2])
    \/ \E name \in CustomerNameInputs : CustomerNameChanged(name)
    \/ \E id \in BookingIdInputs : BookingIdChanged(id)
    \/ ExportRecords

\* C21: ChangeView, SelectShow, SelectSeat, CustomerNameChanged,
\* BookingIdChanged and ExportRecords, and a ConfirmBooking with no show or no
\* seat selected, leave the seat map, the ledger and every counter unchanged;
\* a step that changes one of them is a ConfirmBooking with a show, a seat and
\* a non-blank name, or a CancelBookingConfirm whose trimmed id is in the ledger.
C21_FrameOfOtherMessages ==
    [][/\ OtherMessage => UNCHANGED ReservationState
       /\ (ConfirmBooking /\ (selected_show = <<>> \/ selected_seat = <<>>))
              => UNCHANGED ReservationState
       /\ ReservationState' # ReservationState =>
              \/ /\ ConfirmBooking
                 /\ selected_show # <<>>
                 /\ selected_seat # <<>>
                 /\ ~Blank(customer_name)
              \/ /\ CancelBookingConfirm
                 /\ \E k \in DOMAIN app_bookings :
                        app_bookings[k].id = trim(booking_id_input)]_vars

\* ExportRecords was handled with a booking in the ledger and its seat booked
C21_Witness ==
    /\ success_message = Some(<<"Records exported to bookings_export.json">>)
    /\ app_bookings # <<>>
    /\ \A k \in DOMAIN app_bookings :
           app_bookings[k].seat \in BookedLabels(app_bookings[k].show_id)

====
